---- MODULE Spec2Model ----
(***************************************************************************)
(* Attendance analytics API (src/api/index.js, src/index.js,               *)
(* src/api/cron/auto-checkout.js, src/unnamed/part_000): the event table   *)
(* of the external store, the read endpoints that derive occupancy and     *)
(* statistics from it, the range query, the three checkout closers that    *)
(* append synthetic OUT events and the scheduled function that calls one   *)
(* of them.                                                                *)
(*                                                                         *)
(* Time is counted in whole hours since an epoch that starts a UTC day.    *)
(* toISOString() is UTC, so the calendar date of an instant t is           *)
(* t \div HoursPerDay; getHours() is read in a process whose zone is UTC.  *)
(* Identity tags are opaque non-numeric strings, the display name joined   *)
(* to a row is a function of its tag and is left out of the rows.          *)
(***************************************************************************)
EXTENDS Integers, Sequences, FiniteSets, TLC

VARIABLES
    log,        \* the attendance table of the store, in insertion order
    clock,      \* current instant (hours)
    resp,       \* response of the last read endpoint request
    closer,     \* per entry point: the state of its current/last invocation
    inflight,   \* POSTs to the store that were issued and have not settled
    quiet,      \* a closer completed with every write stored and nothing happened since
    runs,       \* closer invocations so far
    scans       \* tags scanned so far

vars == <<log, clock, resp, closer, inflight, quiet, runs, scans>>

----------------------------------------------------------------------------
(* Bounds *)

MaxScans == 2        \* scanned tags (system specification)
MaxEvents == 3       \* scanned tags (read endpoint specification)
Step == 8            \* hours the clock advances at a time
MaxClock == 24       \* last instant
MaxRuns == 2         \* closer invocations
MaxFrameRuns == 1    \* closer invocations beside the read endpoints

(* Program constants *)

HoursPerDay == 24
WeekDays == 7

Uids == {"A", "B"}
Checks == {"IN", "OUT"}
Closers == {"force", "cron", "handler"}

\* the closers and the scheduled function that calls POST /force-checkout
EntryPoints == Closers \cup {"trigger"}

----------------------------------------------------------------------------
(* Dates *)

\* new Date(x).toISOString().split('T')[0]
isoDate(t) == t \div HoursPerDay

\* new Date(x).getHours()
getHours(t) == t % HoursPerDay

Row(u, c, t) == [rfid_uid |-> u, Check |-> c, created_at |-> t]

----------------------------------------------------------------------------
(* Event Store Gateway *)

\* A GET on the table carries no order parameter: the rows come back in an
\* order the store chooses.
Reorder(rows) ==
    IF rows = <<>> THEN {<<>>}
    ELSE { [i \in 1..Len(rows) |-> rows[p[i]]] : p \in Permutations(1..Len(rows)) }

\* fetchAttendanceToday: every row of the table (the query has no date filter)
fetchAttendanceToday == Reorder(log)

\* the query of /analytics/weekly: rows of the trailing seven days
InWeek(r) ==
    /\ r.created_at >= clock - WeekDays * HoursPerDay
    /\ r.created_at <= clock

fetchWeek == Reorder(SelectSeq(log, InWeek))

----------------------------------------------------------------------------
(* Occupancy Resolver: GET /analytics/current *)

emptyStatus ==
    [keys |-> <<>>,
     rec  |-> [u \in Uids |-> [status |-> "none", time_in |-> 0]]]

\* a container that takes a new entry for a key it already holds
InKeysNever(us, u) == FALSE

InKeys(us, u) == \E i \in 1..Len(us.keys) : us.keys[i] = u

\* the forEach body with an OUT test that never passes
ReplayEntryOutLost(us, entry) ==
    LET userId == entry.rfid_uid
    IN  IF entry.Check = "IN"
        THEN [keys |-> IF InKeys(us, userId) THEN us.keys
                       ELSE Append(us.keys, userId),
              rec  |-> [us.rec EXCEPT ![userId] =
                           [status |-> "IN", time_in |-> entry.created_at]]]
        ELSE us

\* body of todayAttendance.forEach
ReplayEntry(us, entry) ==
    LET userId == entry.rfid_uid
        afterIn ==
            IF entry.Check = "IN"
            THEN [keys |-> IF InKeys(us, userId) THEN us.keys
                           ELSE Append(us.keys, userId),
                  rec  |-> [us.rec EXCEPT ![userId] =
                               [status |-> "IN", time_in |-> entry.created_at]]]
            ELSE us
    IN  IF entry.Check = "OUT" /\ afterIn.rec[userId].status = "IN"
        THEN [afterIn EXCEPT !.rec[userId].status = "OUT"]
        ELSE afterIn

RECURSIVE Replay(_, _)
Replay(list, us) ==
    IF list = <<>> THEN us
    ELSE Replay(Tail(list), ReplayEntry(us, Head(list)))

\* a filter on the trailing day in place of the calendar day
todayAttendanceRolling(attendance, todayDate) ==
    LET IsRecent(entry) == entry.created_at > clock - HoursPerDay
    IN  SelectSeq(attendance, IsRecent)

\* attendance.filter(entry => date of entry is todayDate)
todayAttendance(attendance, todayDate) ==
    LET IsToday(entry) == isoDate(entry.created_at) = todayDate
    IN  SelectSeq(attendance, IsToday)

\* a resolver that pushes a user at each IN of the replay
CurrentUsersPerCheckIn(attendance, todayDate) ==
    LET IsIn(entry) == entry.Check = "IN"
        ins == SelectSeq(todayAttendance(attendance, todayDate), IsIn)
    IN  [i \in 1..Len(ins) |->
            [rfid_uid |-> ins[i].rfid_uid, time_in |-> ins[i].created_at]]

\* for (const userId in userStatus) if status === 'IN' push
peoplePresent(us) ==
    LET StillIn(u) == us.rec[u].status = "IN"
        ks == SelectSeq(us.keys, StillIn)
    IN  [i \in 1..Len(ks) |->
            [rfid_uid |-> ks[i], time_in |-> us.rec[ks[i]].time_in]]

\* the users of the /analytics/current response for a fetched list
CurrentUsers(attendance, todayDate) ==
    peoplePresent(Replay(todayAttendance(attendance, todayDate), emptyStatus))

UidsOf(users) == { users[i].rfid_uid : i \in 1..Len(users) }

NoResp == [kind |-> "none"]

AnalyticsCurrent ==
    /\ \/ \E attendance \in fetchAttendanceToday :
            LET users == CurrentUsers(attendance, isoDate(clock))
            IN  resp' = [kind |-> "current", status |-> 200,
                         today |-> isoDate(clock),
                         fetched |-> attendance,
                         count |-> Len(users), users |-> users]
       \/ resp' = [kind |-> "current", status |-> 500]
    /\ UNCHANGED <<log, clock, closer, inflight, quiet, runs, scans>>

----------------------------------------------------------------------------
(* Aggregation Engine: GET /analytics/weekly *)

\* data.forEach: occupancy[date] is the set of tags seen on that date; the
\* keys of the object are kept in the order of first insertion
RECURSIVE Occupancy(_, _)
Occupancy(data, occ) ==
    IF data = <<>> THEN occ
    ELSE LET entry == Head(data)
             date == isoDate(entry.created_at)
             known == \E i \in 1..Len(occ.keys) : occ.keys[i] = date
             ids == IF known THEN occ.set[date] ELSE {}
         IN  Occupancy(Tail(data),
                [keys |-> IF known THEN occ.keys ELSE Append(occ.keys, date),
                 set  |-> [d \in DOMAIN occ.set \cup {date} |->
                             IF d = date THEN ids \cup {entry.rfid_uid}
                             ELSE occ.set[d]]])

emptyOccupancy == [keys |-> <<>>, set |-> [d \in {} |-> {}]]

\* the aggregation with a list per date in place of a Set
weeklyDataPerEvent(data) ==
    LET occ == Occupancy(data, emptyOccupancy)
        OnDate(date) == { k \in 1..Len(data) : isoDate(data[k].created_at) = date }
    IN  [i \in 1..Len(occ.keys) |->
            [date |-> occ.keys[i],
             occupancy_count |-> Cardinality(OnDate(occ.keys[i]))]]

\* Object.keys(occupancy).map(date => ({date, occupancy_count}))
weeklyData(data) ==
    LET occ == Occupancy(data, emptyOccupancy)
    IN  [i \in 1..Len(occ.keys) |->
            [date |-> occ.keys[i],
             occupancy_count |-> Cardinality(occ.set[occ.keys[i]])]]

AnalyticsWeekly ==
    /\ \/ \E data \in fetchWeek :
            resp' = [kind |-> "weekly", status |-> 200,
                     today |-> isoDate(clock),
                     fetched |-> data, samples |-> weeklyData(data)]
       \/ resp' = [kind |-> "weekly", status |-> 500]
    /\ UNCHANGED <<log, clock, closer, inflight, quiet, runs, scans>>

----------------------------------------------------------------------------
(* Aggregation Engine: GET /analytics/rush-hours *)

\* attendance.forEach: hourlyCheckIns[hour] = (hourlyCheckIns[hour] || 0) + 1
RECURSIVE hourlyCheckIns(_)
hourlyCheckIns(attendance) ==
    IF attendance = <<>> THEN [h \in {} |-> 0]
    ELSE LET n == Len(attendance)
             before == hourlyCheckIns(SubSeq(attendance, 1, n - 1))
             hour == getHours(attendance[n].created_at)
         IN  [h \in DOMAIN before \cup {hour} |->
                 (IF h \in DOMAIN before THEN before[h] ELSE 0)
                 + (IF h = hour THEN 1 ELSE 0)]

\* Object.keys of an object whose keys are integers: ascending numeric order
RECURSIVE AscendingKeys(_)
AscendingKeys(S) ==
    IF S = {} THEN <<>>
    ELSE LET m == CHOOSE x \in S : \A y \in S : x <= y
         IN  <<m>> \o AscendingKeys(S \ {m})

ObjectKeys(counts) == AscendingKeys(DOMAIN counts)

\* an insertion that is not stable: the element goes ahead of its equals
InsertBeforeEqual(sorted, b) ==
    LET Ahead(a) == a.check_ins > b.check_ins
        n == Cardinality({i \in 1..Len(sorted) : Ahead(sorted[i])})
    IN  SubSeq(sorted, 1, n) \o <<b>> \o SubSeq(sorted, n + 1, Len(sorted))

\* Array.prototype.sort with (a, b) => b.check_ins - a.check_ins: a stable
\* sort, an element goes behind every element that does not compare after it
InsertSorted(sorted, b) ==
    LET Ahead(a) == a.check_ins >= b.check_ins
        n == Cardinality({i \in 1..Len(sorted) : Ahead(sorted[i])})
    IN  SubSeq(sorted, 1, n) \o <<b>> \o SubSeq(sorted, n + 1, Len(sorted))

RECURSIVE SortDesc(_)
SortDesc(list) ==
    IF list = <<>> THEN <<>>
    ELSE InsertSorted(SortDesc(SubSeq(list, 1, Len(list) - 1)), list[Len(list)])

sortedHours(attendance) ==
    LET counts == hourlyCheckIns(attendance)
        keys == ObjectKeys(counts)
    IN  SortDesc([i \in 1..Len(keys) |->
                    [hour |-> keys[i], check_ins |-> counts[keys[i]]]])

AnalyticsRushHours ==
    /\ \/ \E attendance \in fetchAttendanceToday :
            resp' = [kind |-> "rush", status |-> 200,
                     today |-> isoDate(clock),
                     fetched |-> attendance, hours |-> sortedHours(attendance)]
       \/ resp' = [kind |-> "rush", status |-> 500]
    /\ UNCHANGED <<log, clock, closer, inflight, quiet, runs, scans>>

----------------------------------------------------------------------------
(* GET /api/attendance *)

\* a query parameter the request does not carry (or carries empty)
Missing == -1

\* the values a request names: a date 'YYYY-MM-DD' is read by the store as
\* the first instant of that date
RangeEnds == { d * HoursPerDay : d \in 0..(MaxClock \div HoursPerDay) }

\* created_at=gte.start_date and created_at=lte.end_date
fetchAttendanceByDateRange(start_date, end_date) ==
    LET InRange(r) ==
            /\ start_date # Missing => r.created_at >= start_date
            /\ end_date # Missing => r.created_at <= end_date
    IN  Reorder(SelectSeq(log, InRange))

\* what the awaited read comes to: the rows, or a request that fails
RangeReads(start_date, end_date) ==
    { [ok |-> TRUE, data |-> a] : a \in fetchAttendanceByDateRange(start_date, end_date) }
        \cup {[ok |-> FALSE, data |-> <<>>]}

\* a validation that lets one missing date through
DatesBothMissing(start_date, end_date) == start_date = Missing /\ end_date = Missing

\* !start_date || !end_date
DatesMissing(start_date, end_date) == start_date = Missing \/ end_date = Missing

\* a handler that takes a failed read for an empty one
AttendanceReplyErrorAsEmpty(read) ==
    IF ~read.ok \/ read.data = <<>> THEN [status |-> 404, body |-> <<>>]
    ELSE [status |-> 200, body |-> read.data]

\* the try block and its catch: 500 when the read throws, 404 when there is
\* no row, 200 with the rows otherwise
AttendanceReply(read) ==
    IF ~read.ok THEN [status |-> 500, body |-> <<>>]
    ELSE IF read.data = <<>> THEN [status |-> 404, body |-> <<>>]
    ELSE [status |-> 200, body |-> read.data]

\* reads counts the requests the handler made to the store, read is what the
\* store answered
ApiAttendance ==
    /\ \E start_date \in RangeEnds \cup {Missing}, end_date \in RangeEnds \cup {Missing} :
          IF DatesMissing(start_date, end_date)
          THEN resp' = [kind |-> "attendance", status |-> 400,
                        start_date |-> start_date, end_date |-> end_date,
                        reads |-> 0, read |-> [ok |-> FALSE, data |-> <<>>],
                        body |-> <<>>]
          ELSE \E read \in RangeReads(start_date, end_date) :
                  LET reply == AttendanceReply(read)
                  IN  resp' = [kind |-> "attendance", status |-> reply.status,
                               start_date |-> start_date, end_date |-> end_date,
                               reads |-> 1, read |-> read,
                               body |-> reply.body]
    /\ UNCHANGED <<log, clock, closer, inflight, quiet, runs, scans>>

----------------------------------------------------------------------------
(* The environment: check-in hardware and the passing of time *)

Fresh ==
    [pc |-> "idle", users |-> <<>>, now |-> 0, idx |-> 1,
     outcome |-> <<>>,
     rows |-> <<>>,
     status |-> 0, n |-> 0, report |-> <<>>,
     authorized |-> TRUE, upstream |-> "none", error |-> "none",
     afterQuiet |-> FALSE, undisturbed |-> FALSE]

AtRest(c) == closer[c].pc \in {"idle", "done"}

\* a response that was delivered is forgotten with the next event; the
\* writes its invocation left outstanding stay on their way to the store
Forget(cl) == [c \in EntryPoints |-> IF cl[c].pc = "done" THEN Fresh ELSE cl[c]]

Detach(infl, cl) ==
    { IF cl[m.by].pc = "done" THEN [m EXCEPT !.cur = FALSE] ELSE m : m \in infl }

\* a scan of a tag: the store stamps the row with its clock; instants are far
\* apart, a tag has one row at most at an instant
HardwareScan ==
    \E u \in Uids, c \in Checks :
        /\ \A k \in 1..Len(log) : log[k].rfid_uid = u => log[k].created_at # clock
        /\ log' = Append(log, Row(u, c, clock))
        /\ scans' = scans + 1
        /\ resp' = NoResp
        /\ quiet' = FALSE
        /\ closer' = [d \in EntryPoints |-> [Forget(closer)[d] EXCEPT !.undisturbed = FALSE]]
        /\ inflight' = Detach(inflight, closer)
        /\ UNCHANGED <<clock, runs>>

Tick ==
    /\ clock + Step <= MaxClock
    /\ clock' = clock + Step
    /\ resp' = NoResp
    /\ closer' = Forget(closer)
    /\ inflight' = Detach(inflight, closer)
    /\ UNCHANGED <<log, quiet, runs, scans>>

----------------------------------------------------------------------------
(* Checkout Closer: shared parts *)

\* the users lists GET /analytics/current can answer with now
PresentReads == { CurrentUsers(a, isoDate(clock)) : a \in fetchAttendanceToday }

\* a new invocation of entry point c; writes of its previous invocation that
\* are still outstanding no longer belong to the invocation in progress. The
\* entry point is not invoked while writes of a forgotten invocation of it
\* are outstanding, so that the outstanding writes stay distinct.
Invoke(c) ==
    /\ AtRest(c)
    /\ runs < MaxRuns
    /\ runs' = runs + 1
    /\ \A m \in inflight : m.by = c => m.cur
    /\ inflight' = Detach(inflight, closer)

\* the invocation answered 200 after every write it made was stored, no tag
\* was scanned since it read the present set, and no other request is in
\* progress
CleanRun(c, rec, infl) ==
    /\ rec.status = 200
    /\ rec.undisturbed
    /\ \A i \in 1..Len(rec.users) : rec.outcome[i] = "ok"
    /\ infl = {}
    /\ \A d \in Closers \ {c} : AtRest(d)

Respond(rec, status, n, report) ==
    [rec EXCEPT !.pc = "done", !.status = status, !.n = n, !.report = report]

\* quiet after a step of closer c that leaves it as next
Quiet(c, next, infl, stored) ==
    IF next.pc = "done" /\ closer[c].pc # "done" THEN CleanRun(c, next, infl)
    ELSE IF stored THEN FALSE
    ELSE quiet

\* the state of an invocation that has read users and written nothing yet
Holding(users) ==
    [Fresh EXCEPT !.users = users, !.outcome = [i \in 1..Len(users) |-> "none"],
                  !.upstream = "ok",
                  !.afterQuiet = quiet, !.undisturbed = TRUE]

AllOk(rec) == \A i \in 1..Len(rec.users) : rec.outcome[i] = "ok"

\* axios.post of one OUT row; created_at = -1 when the payload has none
Post(c, i, users, created_at) ==
    [by |-> c, i |-> i, rfid_uid |-> users[i].rfid_uid,
     created_at |-> created_at, cur |-> TRUE]

\* a closer that looks at the table again when it writes: no POST for an
\* identity whose last row in the table is no longer an IN
PostsUnclaimed(c, users, created_at) ==
    LET Open(i) ==
            \E k \in 1..Len(log) :
                /\ log[k].rfid_uid = users[i].rfid_uid /\ log[k].Check = "IN"
                /\ \A j \in (k + 1)..Len(log) : log[j].rfid_uid # users[i].rfid_uid
    IN  { Post(c, i, users, created_at) : i \in { j \in 1..Len(users) : Open(j) } }

Posts(c, users, created_at) == { Post(c, i, users, created_at) : i \in 1..Len(users) }

Pending(rec) == [rec EXCEPT !.outcome = [i \in 1..Len(rec.users) |-> "pending"]]

\* the invocation whose GET /analytics/current (or whose upstream call)
\* failed or was answered with an error status
ReadFailed == [Respond(Fresh, 500, 0, <<>>) EXCEPT !.upstream = "failed"]

\* what the body of the 500 response of an entry point says of the error:
\* error.message, or the fixed text 'Force checkout failed'
Catch(c) == IF c = "force" THEN "Force checkout failed" ELSE "error.message"

\* catch (error) { res.status(500).json(...) }
Caught(c, rec) ==
    IF rec.pc = "done" /\ rec.status = 500 THEN [rec EXCEPT !.error = Catch(c)] ELSE rec

\* the scheduled function waits for the response of POST /force-checkout and
\* answers 200 with it, whatever its status
Relay(cl) ==
    IF cl["trigger"].pc = "wait" /\ cl["force"].pc = "done"
    THEN [cl EXCEPT !["trigger"] =
             [Respond(@, 200, 0, <<>>) EXCEPT
                 !.upstream = IF cl["force"].status = 200 THEN "ok" ELSE "failed"]]
    ELSE cl


----------------------------------------------------------------------------
(* POST /force-checkout *)

ForceRead ==
    /\ Invoke("force")
    /\ \/ \E users \in PresentReads :
            closer' = [Forget(closer) EXCEPT !["force"] =
                          [Holding(users) EXCEPT !.pc = "got"]]
       \/ closer' = [Forget(closer) EXCEPT !["force"] = Caught("force", ReadFailed)]
    /\ UNCHANGED <<log, clock, resp, quiet, scans>>

\* now = new Date(); every axios.post is issued by the map; Promise.all of
\* no promise resolves at once
ForceIssue ==
    LET rec == closer["force"]
        issued == Pending([rec EXCEPT !.pc = "wait", !.now = clock])
        next == IF rec.users = <<>> THEN Respond(issued, 200, 0, <<>>) ELSE issued
    IN  /\ rec.pc = "got"
        /\ inflight' = inflight \cup Posts("force", rec.users, clock)
        /\ closer' = Relay([closer EXCEPT !["force"] = next])
        /\ quiet' = Quiet("force", next, inflight', FALSE)
        /\ UNCHANGED <<log, clock, resp, runs, scans>>

\* Promise.all: rejects with the first write that fails, resolves when every
\* write has succeeded
PromiseAll(rec, n, report) ==
    IF rec.pc # "wait" THEN rec
    ELSE IF \E i \in 1..Len(rec.users) : rec.outcome[i] = "fail"
         THEN Respond(rec, 500, 0, <<>>)
    ELSE IF AllOk(rec) THEN Respond(rec, 200, n, report)
    ELSE rec

\* a store that keeps the row of a POST as a check-in
StoredCheckIn(m) ==
    Row(m.rfid_uid, "IN", IF m.created_at = -1 THEN clock ELSE m.created_at)

\* the row the store keeps for a POST: the payload, stamped by the store
\* when it carries no created_at
Stored(m) ==
    Row(m.rfid_uid, "OUT", IF m.created_at = -1 THEN clock ELSE m.created_at)

\* one POST of closer c settles: the store keeps the row or the write fails;
\* rows lists what the invocation has added to the table
Settled(c, m, ok) ==
    LET rec == closer[c]
    IN  IF ~m.cur THEN rec
        ELSE [rec EXCEPT !.outcome[m.i] = IF ok THEN "ok" ELSE "fail",
                         !.rows = IF ok THEN Append(@, Stored(m)) ELSE @]

ForceSettle ==
    \E m \in inflight, ok \in BOOLEAN :
        LET rec == Settled("force", m, ok)
            next == Caught("force", PromiseAll(rec, Len(rec.users), <<>>))
        IN  /\ m.by = "force"
            /\ inflight' = inflight \ {m}
            /\ log' = IF ok THEN Append(log, Stored(m)) ELSE log
            /\ closer' = Relay([closer EXCEPT !["force"] = next])
            /\ quiet' = Quiet("force", next, inflight', ok)
            /\ UNCHANGED <<clock, resp, runs, scans>>

----------------------------------------------------------------------------
(* GET /cron/auto-checkout of the express application *)

\* the route reads no header: the request is served the same whether or not
\* its bearer token is the configured secret
CronRead ==
    /\ Invoke("cron")
    /\ \E authorized \in BOOLEAN :
          \/ \E users \in PresentReads :
                closer' = [Forget(closer) EXCEPT !["cron"] =
                              [Holding(users) EXCEPT !.pc = "got",
                                                     !.authorized = authorized]]
          \/ closer' = [Forget(closer) EXCEPT !["cron"] =
                            [Caught("cron", ReadFailed) EXCEPT !.authorized = authorized]]
    /\ UNCHANGED <<log, clock, resp, quiet, scans>>

\* results: one {name, status: 'Checked Out'} per user, in the order of users
CronResults(users) == [i \in 1..Len(users) |-> [rfid_uid |-> users[i].rfid_uid, ok |-> TRUE]]

CronIssue ==
    LET rec == closer["cron"]
        issued == Pending([rec EXCEPT !.pc = "wait"])
        next == IF rec.users = <<>> THEN Respond(issued, 200, 0, <<>>) ELSE issued
    IN  /\ rec.pc = "got"
        /\ inflight' = inflight \cup Posts("cron", rec.users, -1)
        /\ closer' = [closer EXCEPT !["cron"] = next]
        /\ quiet' = Quiet("cron", next, inflight', FALSE)
        /\ UNCHANGED <<log, clock, resp, runs, scans>>

CronSettle ==
    \E m \in inflight, ok \in BOOLEAN :
        LET rec == Settled("cron", m, ok)
            next == Caught("cron", PromiseAll(rec, Len(rec.users), CronResults(rec.users)))
        IN  /\ m.by = "cron"
            /\ inflight' = inflight \ {m}
            /\ log' = IF ok THEN Append(log, Stored(m)) ELSE log
            /\ closer' = [closer EXCEPT !["cron"] = next]
            /\ quiet' = Quiet("cron", next, inflight', ok)
            /\ UNCHANGED <<clock, resp, runs, scans>>

----------------------------------------------------------------------------
(* api/cron/auto-checkout.js: the scheduled handler *)

HandlerStart ==
    /\ Invoke("handler")
    /\ \E authorized \in BOOLEAN :
          IF ~authorized
          THEN closer' = [Forget(closer) EXCEPT !["handler"] =
                             [Respond(Fresh, 401, 0, <<>>) EXCEPT !.authorized = FALSE]]
          ELSE \/ \E users \in PresentReads :
                    closer' = [Forget(closer) EXCEPT !["handler"] =
                          IF users = <<>>
                          THEN Respond(Holding(users), 200, 0, <<>>)
                          ELSE [Holding(users) EXCEPT !.pc = "loop"]]
               \/ closer' = [Forget(closer) EXCEPT !["handler"] = Caught("handler", ReadFailed)]
    /\ quiet' = IF closer'["handler"].status = 200
                THEN CleanRun("handler", closer'["handler"], inflight')
                ELSE quiet
    /\ UNCHANGED <<log, clock, resp, scans>>

\* the loop without a try/catch of its own: a failed POST ends the handler
\* in the outer catch
HandlerPostAborting ==
    \E ok \in BOOLEAN :
        LET rec == closer["handler"]
            m == Post("handler", rec.idx, rec.users, -1)
            logs == Append(rec.report, [rfid_uid |-> m.rfid_uid, ok |-> ok])
            turned == [Settled("handler", m, ok) EXCEPT !.idx = @ + 1, !.report = logs]
            next == IF ~ok THEN Respond(turned, 500, 0, <<>>)
                    ELSE IF rec.idx = Len(rec.users)
                    THEN Respond(turned, 200, Len(logs), logs) ELSE turned
        IN  /\ rec.pc = "loop"
            /\ log' = IF ok THEN Append(log, Stored(m)) ELSE log
            /\ closer' = [closer EXCEPT !["handler"] = next]
            /\ quiet' = Quiet("handler", next, inflight, ok)
            /\ UNCHANGED <<clock, resp, inflight, runs, scans>>

\* one turn of for (const user of users): the POST is awaited inside its own
\* try/catch, the outcome is pushed to logs; after the last user, res.send
HandlerPost ==
    \E ok \in BOOLEAN :
        LET rec == closer["handler"]
            user == rec.users[rec.idx]
            m == Post("handler", rec.idx, rec.users, -1)
            logs == Append(rec.report, [rfid_uid |-> user.rfid_uid, ok |-> ok])
            turned == [Settled("handler", m, ok) EXCEPT !.idx = @ + 1, !.report = logs]
            next == IF rec.idx = Len(rec.users)
                    THEN Respond(turned, 200, Len(logs), logs) ELSE turned
        IN  /\ rec.pc = "loop"
            /\ log' = IF ok THEN Append(log, Stored(m)) ELSE log
            /\ closer' = [closer EXCEPT !["handler"] = next]
            /\ quiet' = Quiet("handler", next, inflight, ok)
            /\ UNCHANGED <<clock, resp, inflight, runs, scans>>

----------------------------------------------------------------------------
(* The scheduled function: POST /force-checkout at 12:30 UTC *)

\* fetch of POST /force-checkout: the call fails (the catch answers 500 with
\* err.message), or force-checkout serves it; a response of any status
\* resolves the fetch
TriggerStart ==
    /\ AtRest("trigger")
    /\ Invoke("force")
    /\ \/ closer' = [Forget(closer) EXCEPT !["trigger"] = Caught("trigger", ReadFailed)]
       \/ \E users \in PresentReads :
            closer' = [Forget(closer) EXCEPT
                          !["trigger"] = [Fresh EXCEPT !.pc = "wait"],
                          !["force"] = [Holding(users) EXCEPT !.pc = "got"]]
       \/ closer' = Relay([Forget(closer) EXCEPT
                                !["trigger"] = [Fresh EXCEPT !.pc = "wait"],
                                !["force"] = Caught("force", ReadFailed)])
    /\ UNCHANGED <<log, clock, resp, quiet, scans>>

----------------------------------------------------------------------------
(* Specifications *)

Init ==
    /\ log = <<>>
    /\ clock = 0
    /\ resp = NoResp
    /\ closer = [c \in EntryPoints |-> Fresh]
    /\ inflight = {}
    /\ quiet = FALSE
    /\ runs = 0
    /\ scans = 0

\* the whole system: scans, time, the three checkout entry points and the
\* scheduled function
Next ==
    \/ (scans < MaxScans /\ HardwareScan)
    \/ Tick
    \/ ForceRead
    \/ ForceIssue
    \/ ForceSettle
    \/ CronRead
    \/ CronIssue
    \/ CronSettle
    \/ HandlerStart
    \/ HandlerPost
    \/ TriggerStart

Spec == Init /\ [][Next]_vars

\* the read endpoints over the tables that scans produce
ReadNext ==
    \/ (scans < MaxEvents /\ HardwareScan)
    \/ Tick
    \/ AnalyticsCurrent
    \/ AnalyticsWeekly
    \/ AnalyticsRushHours

ReadSpec == Init /\ [][ReadNext]_vars

\* the range query over the tables that scans produce
RangeNext ==
    \/ (scans < MaxScans /\ HardwareScan)
    \/ Tick
    \/ ApiAttendance

RangeSpec == Init /\ [][RangeNext]_vars

\* the response of a read endpoint has reached its client
Delivered ==
    /\ resp # NoResp
    /\ resp' = NoResp
    /\ UNCHANGED <<log, clock, closer, inflight, quiet, runs, scans>>

\* every operation on the table together: scans, the read endpoints, the
\* range query, the closers and the scheduled function; a request is taken
\* up once the last response of a read endpoint is delivered
FrameNext ==
    \/ (scans < MaxScans /\ HardwareScan)
    \/ Tick
    \/ (resp = NoResp /\ AnalyticsCurrent)
    \/ (resp = NoResp /\ AnalyticsWeekly)
    \/ (resp = NoResp /\ AnalyticsRushHours)
    \/ (resp = NoResp /\ ApiAttendance)
    \/ Delivered
    \/ (resp = NoResp /\ runs < MaxFrameRuns /\ ForceRead)
    \/ (resp = NoResp /\ ForceIssue)
    \/ (resp = NoResp /\ ForceSettle)
    \/ (resp = NoResp /\ runs < MaxFrameRuns /\ CronRead)
    \/ (resp = NoResp /\ CronIssue)
    \/ (resp = NoResp /\ CronSettle)
    \/ (resp = NoResp /\ runs < MaxFrameRuns /\ HandlerStart)
    \/ (resp = NoResp /\ HandlerPost)
    \/ (resp = NoResp /\ runs < MaxFrameRuns /\ TriggerStart)

FrameSpec == Init /\ [][FrameNext]_vars

----------------------------------------------------------------------------
(* Properties of GET /analytics/current *)

Answered(kind) == resp.kind = kind /\ resp.status = 200

\* the same-day list the last /analytics/current request replayed
Replayed == todayAttendance(resp.fetched, resp.today)

\* the kinds of the events of identity a in a list, in the order of the list
KindsOf(list, a) ==
    LET OfA(e) == e.rfid_uid = a
        own == SelectSeq(list, OfA)
    IN  [i \in 1..Len(own) |-> own[i].Check]

Without(list, a) ==
    LET NotOfA(e) == e.rfid_uid # a
    IN  SelectSeq(list, NotOfA)

OnlyKind(list, a, kind) ==
    /\ KindsOf(list, a) # <<>>
    /\ \A i \in 1..Len(KindsOf(list, a)) : KindsOf(list, a)[i] = kind

\* C1: in the response of GET /analytics/current, an identity whose events
\* in the replayed same-day list are IN then OUT is not among the users, one
\* with only IN events is among them, and one with only OUT events is not
\* among them and its events change nothing in the answer.
C1_InOutReplay ==
    Answered("current") =>
        \A a \in Uids :
            /\ KindsOf(Replayed, a) = <<"IN", "OUT">> => a \notin UidsOf(resp.users)
            /\ OnlyKind(Replayed, a, "IN") => a \in UidsOf(resp.users)
            /\ OnlyKind(Replayed, a, "OUT") =>
                  /\ a \notin UidsOf(resp.users)
                  /\ resp.users = CurrentUsers(Without(Replayed, a), resp.today)

C1_Witness ==
    /\ Answered("current")
    /\ KindsOf(Replayed, "A") = <<"IN", "OUT">>
    /\ OnlyKind(Replayed, "B", "IN")
    /\ UidsOf(resp.users) = {"B"}

\* the same-day events of identity a, as the set of their <<instant, kind>>
TimedKinds(list, a) ==
    { <<list[i].created_at, list[i].Check>> :
        i \in { k \in 1..Len(list) : list[k].rfid_uid = a } }

\* the same-day events of a are three, IN, OUT, IN in the order of their instants
ReEntry(list, a) ==
    /\ Len(KindsOf(list, a)) = 3
    /\ \E t1, t2, t3 \in 0..MaxClock :
          /\ t1 < t2 /\ t2 < t3
          /\ TimedKinds(list, a) = {<<t1, "IN">>, <<t2, "OUT">>, <<t3, "IN">>}

\* C2: an identity whose same-day events are IN, OUT, IN in that order of
\* time is reported present by GET /analytics/current.
C2_ReEntryPresent ==
    Answered("current") =>
        \A a \in Uids : ReEntry(Replayed, a) => a \in UidsOf(resp.users)

\* C3: GET /analytics/current answers with the same present set for every
\* order in which the store may return the same rows.
C3_OrderIndependent ==
    Answered("current") =>
        \A other \in Reorder(resp.fetched) :
            UidsOf(CurrentUsers(other, resp.today)) = UidsOf(resp.users)

\* the events of identity a in a list that fall on a calendar day
EventsOn(list, a, day) ==
    { list[i] : i \in { k \in 1..Len(list) :
                          list[k].rfid_uid = a /\ isoDate(list[k].created_at) = day } }

CheckInsOn(list, a, day) == { e \in EventsOn(list, a, day) : e.Check = "IN" }

\* C17: GET /analytics/current leaves out, before the replay, the events that
\* are not on the current calendar day: every time_in listed is of today, an
\* identity with no IN of today is not listed whatever IN it has on another
\* day, and with no event of today the answer is count 0 and no user.
C17_OtherDaysExcluded ==
    Answered("current") =>
        /\ \A i \in 1..Len(resp.users) : isoDate(resp.users[i].time_in) = resp.today
        /\ \A a \in Uids :
              CheckInsOn(resp.fetched, a, resp.today) = {} => a \notin UidsOf(resp.users)
        /\ (\A a \in Uids : EventsOn(resp.fetched, a, resp.today) = {})
              => (resp.count = 0 /\ resp.users = <<>>)

\* the request comes less than a day after an IN of the day before that no
\* OUT has closed, and nothing was scanned today
C17_Witness ==
    /\ Answered("current")
    /\ \E i \in 1..Len(resp.fetched) :
          /\ resp.fetched[i].Check = "IN"
          /\ isoDate(resp.fetched[i].created_at) < resp.today
          /\ clock - resp.fetched[i].created_at < HoursPerDay
          /\ \A k \in 1..Len(resp.fetched) :
                resp.fetched[k].rfid_uid = resp.fetched[i].rfid_uid
                    => resp.fetched[k].Check = "IN"
    /\ \A a \in Uids : EventsOn(resp.fetched, a, resp.today) = {}
    /\ resp.count = 0

\* the last of a set of events in the order of their instants
Latest(events) == CHOOSE e \in events : \A f \in events : f.created_at <= e.created_at

\* C18: every identity that GET /analytics/current lists as present has, among
\* its events of the day, an IN as the event of the latest timestamp (no OUT
\* of the day has a later timestamp).
C18_PresentMeansLatestIsIn ==
    Answered("current") =>
        \A a \in UidsOf(resp.users) :
            /\ EventsOn(resp.fetched, a, resp.today) # {}
            /\ Latest(EventsOn(resp.fetched, a, resp.today)).Check = "IN"

\* C19: an identity whose events of the day are several IN and no OUT is
\* listed once by GET /analytics/current, with the timestamp of the latest of
\* these IN as time_in.
C19_LatestInRetained ==
    Answered("current") =>
        \A a \in Uids :
            LET today == EventsOn(resp.fetched, a, resp.today)
                Listed == { i \in 1..Len(resp.users) : resp.users[i].rfid_uid = a }
            IN  (Cardinality(today) >= 2 /\ today = CheckInsOn(resp.fetched, a, resp.today))
                    => /\ Cardinality(Listed) = 1
                       /\ \A i \in Listed : resp.users[i].time_in = Latest(today).created_at

\* C23: in every successful response of GET /analytics/current, count is the
\* length of users and no rfid_uid is listed twice, also when the list
\* fetched holds several IN events of one identity.
C23_CountIsLengthNoDuplicate ==
    Answered("current") =>
        /\ resp.count = Len(resp.users)
        /\ \A i, k \in 1..Len(resp.users) :
              resp.users[i].rfid_uid = resp.users[k].rfid_uid => i = k

\* two IN events of A and one of B were replayed, both are listed
C23_Witness ==
    /\ Answered("current")
    /\ Cardinality(CheckInsOn(resp.fetched, "A", resp.today)) = 2
    /\ Cardinality(CheckInsOn(resp.fetched, "B", resp.today)) = 1
    /\ resp.count = 2
    /\ UidsOf(resp.users) = {"A", "B"}

----------------------------------------------------------------------------
(* Properties of GET /analytics/weekly *)

DatesOf(data) == { isoDate(data[i].created_at) : i \in 1..Len(data) }

TagsOn(data, date) ==
    { data[i].rfid_uid : i \in { k \in 1..Len(data) : isoDate(data[k].created_at) = date } }

\* C8: GET /analytics/weekly answers with exactly one sample for each date
\* that has an event among the fetched rows and none for any other date; the
\* occupancy_count of a sample is the number of distinct tags with an event
\* on its date, and is never 0.
C8_WeeklySamples ==
    Answered("weekly") =>
        /\ { resp.samples[i].date : i \in 1..Len(resp.samples) } = DatesOf(resp.fetched)
        /\ \A i, j \in 1..Len(resp.samples) :
              resp.samples[i].date = resp.samples[j].date => i = j
        /\ \A i \in 1..Len(resp.samples) :
              /\ resp.samples[i].occupancy_count
                    = Cardinality(TagsOn(resp.fetched, resp.samples[i].date))
              /\ resp.samples[i].occupancy_count > 0

\* three rows on two dates, two distinct tags on one of the dates
C8_Witness ==
    /\ Answered("weekly")
    /\ Len(resp.fetched) = 3
    /\ Len(resp.samples) = 2
    /\ \E i \in 1..2 : resp.samples[i].occupancy_count = 2

----------------------------------------------------------------------------
(* Properties of GET /analytics/rush-hours *)

\* the IN events of the current day in hour h among the fetched rows
CheckInsToday(h) ==
    Cardinality({ k \in 1..Len(resp.fetched) :
                    /\ resp.fetched[k].Check = "IN"
                    /\ isoDate(resp.fetched[k].created_at) = resp.today
                    /\ getHours(resp.fetched[k].created_at) = h })

\* C9: in the response of GET /analytics/rush-hours the check_ins of each
\* bucket is the number of IN events of the current day in that hour.
C9_CountsCheckInsOfToday ==
    Answered("rush") =>
        \A i \in 1..Len(resp.hours) :
            resp.hours[i].check_ins = CheckInsToday(resp.hours[i].hour)

\* C10: the list of GET /analytics/rush-hours is in non-increasing order of
\* check_ins, and buckets with equal check_ins are in ascending order of hour.
C10_SortedDescending ==
    Answered("rush") =>
        \A i, j \in 1..Len(resp.hours) :
            i < j =>
                \/ resp.hours[i].check_ins > resp.hours[j].check_ins
                \/ /\ resp.hours[i].check_ins = resp.hours[j].check_ins
                   /\ resp.hours[i].hour < resp.hours[j].hour

\* two buckets with equal check_ins
C10_TieWitness ==
    /\ Answered("rush")
    /\ \E i, j \in 1..Len(resp.hours) :
          i < j /\ resp.hours[i].check_ins = resp.hours[j].check_ins

----------------------------------------------------------------------------
(* Properties of the Checkout Closer *)

\* closer c has answered an invocation that read a present set
Closed(c) == closer[c].pc = "done" /\ closer[c].users # <<>>

Failed(c, i) == closer[c].outcome[i] = "fail"

\* C4: when a closer has answered, the OUT write was attempted for every
\* identity of the present set it read, also when the write of another
\* identity of the set failed.
C4_EveryWriteAttempted ==
    \A c \in Closers :
        Closed(c) =>
            \A i \in 1..Len(closer[c].users) : closer[c].outcome[i] # "none"

\* the write of the first identity failed, the write of the second was made
C4_Witness ==
    /\ Closed("handler")
    /\ Len(closer["handler"].users) = 2
    /\ Failed("handler", 1)
    /\ closer["handler"].outcome[2] = "ok"

Reports(c, i, ok) ==
    \E k \in 1..Len(closer[c].report) :
        closer[c].report[k] = [rfid_uid |-> closer[c].users[i].rfid_uid, ok |-> ok]

\* C5: a closer that read a present set of two identities, stored the OUT of
\* one and failed to store the OUT of the other, answers with a success
\* status and a body that reports the one as succeeded and the other as failed.
C5_PartialFailureReported ==
    \A c \in Closers :
        \A i, j \in 1..Len(closer[c].users) :
            ( /\ Closed(c)
              /\ Len(closer[c].users) = 2
              /\ closer[c].outcome[i] = "ok"
              /\ Failed(c, j) )
            => /\ closer[c].status = 200
               /\ Reports(c, i, TRUE)
               /\ Reports(c, j, FALSE)

\* C6: an invocation of a closer that follows a completed invocation with no
\* event in between reads an empty present set.
C6_SecondRunNoOp ==
    \A c \in Closers :
        (closer[c].pc # "idle" /\ closer[c].afterQuiet) => closer[c].users = <<>>

\* the rows an invocation added to the table for identity u
RowsFor(c, u) == { k \in 1..Len(closer[c].rows) : closer[c].rows[k].rfid_uid = u }

InLog(row) == \E k \in 1..Len(log) : log[k] = row

\* C7: when a closer has answered after every one of its writes succeeded,
\* it has appended exactly one row, an OUT, for each identity of the present
\* set it read and none for any other identity; the count in the message of
\* POST /force-checkout is the number of rows appended.
C7_OneOutPerPresent ==
    \A c \in Closers :
        (closer[c].pc = "done" /\ closer[c].status = 200 /\ AllOk(closer[c])) =>
            /\ \A u \in Uids :
                  Cardinality(RowsFor(c, u))
                      = IF u \in UidsOf(closer[c].users) THEN 1 ELSE 0
            /\ \A k \in 1..Len(closer[c].rows) :
                  closer[c].rows[k].Check = "OUT" /\ InLog(closer[c].rows[k])
            /\ c = "force" => closer[c].n = Len(closer[c].rows)

C7_Witness ==
    /\ closer["force"].pc = "done"
    /\ closer["force"].status = 200
    /\ UidsOf(closer["force"].users) = {"A", "B"}
    /\ closer["force"].n = 2
    /\ Len(log) = 4

\* C14: a request to a scheduled checkout entry point whose bearer token is
\* not the configured secret is answered 401, and its invocation reads no
\* occupancy and issues no write to the store.
C14_UnauthorizedShortCircuits ==
    \A c \in {"cron", "handler"} :
        (closer[c].pc # "idle" /\ ~closer[c].authorized) =>
            /\ closer[c].pc = "done" /\ closer[c].status = 401
            /\ closer[c].upstream = "none"
            /\ closer[c].outcome = <<>> /\ closer[c].rows = <<>>
            /\ \A m \in inflight : m.by = c => ~m.cur

\* C15: an entry point whose occupancy read or upstream call failed, or was
\* answered with an error status, answers 500 with the message of the error
\* in the body; POST /force-checkout and the scheduled function included.
C15_FailureSurfaced ==
    \A c \in EntryPoints :
        (closer[c].pc = "done" /\ closer[c].upstream = "failed") =>
            (closer[c].status = 500 /\ closer[c].error = "error.message")

\* C20: a closer has sent its response only when every write it issued has
\* settled; no response is sent while one of its writes is outstanding, a
\* write that failed before included.
C20_RespondsAfterAllSettled ==
    \A c \in Closers :
        closer[c].pc = "done" =>
            /\ \A i \in 1..Len(closer[c].outcome) : closer[c].outcome[i] # "pending"
            /\ \A m \in inflight : m.by = c => ~m.cur

----------------------------------------------------------------------------
(* The race between closers and check-ins *)

\* the positions in the table of the rows of an identity of a kind
RowsOf(a, kind) ==
    { k \in 1..Len(log) : log[k].rfid_uid = a /\ log[k].Check = kind }

\* the invocation of closer c has read a as present since time_in and has
\* stored an OUT for it
ClosedSession(c, a, time_in) ==
    /\ \E i \in 1..Len(closer[c].users) :
          closer[c].users[i] = [rfid_uid |-> a, time_in |-> time_in]
    /\ RowsFor(c, a) # {}

\* C21: presence is read and closed in two separate steps with nothing
\* atomic between them: a closer that has read its list writes an OUT for
\* each identity of that list and for no other, whatever the table has
\* become since the read; so the conflicting writes of the witness are
\* reachable.
C21_WritesFollowTheRead ==
    \A c \in Closers :
        /\ closer[c].pc = "wait" =>
              \A i \in 1..Len(closer[c].users) :
                  closer[c].outcome[i] = "pending" =>
                      Post(c, i, closer[c].users,
                           IF c = "force" THEN closer[c].now ELSE -1) \in inflight
        /\ \A k \in 1..Len(closer[c].rows) :
              /\ closer[c].rows[k].rfid_uid \in UidsOf(closer[c].users)
              /\ InLog(closer[c].rows[k])

\* the manual and a scheduled checkout have both read A as present since the
\* same IN and both have stored an OUT for that session; A has checked in
\* afresh after both reads, the OUT rows come after that IN and the one of
\* the scheduled checkout has a later timestamp, so that A, just checked in,
\* is taken as departed
C21_Witness ==
    \E c \in {"cron", "handler"}, q \in RowsOf("A", "IN") :
        /\ ClosedSession("force", "A", 0)
        /\ ClosedSession(c, "A", 0)
        /\ ~closer["force"].undisturbed /\ ~closer[c].undisturbed
        /\ scans = 2
        /\ Cardinality(RowsOf("A", "OUT")) = 2
        /\ log[q].created_at > 0
        /\ \A k \in RowsOf("A", "OUT") : k > q
        /\ \E k \in RowsOf("A", "OUT") :
              /\ log[k] \in { closer[c].rows[j] : j \in 1..Len(closer[c].rows) }
              /\ log[k].created_at > log[q].created_at
        /\ "A" \notin UidsOf(CurrentUsers(log, isoDate(clock)))

----------------------------------------------------------------------------
(* Properties of the event log *)

\* the table after a step is the table before it, or that with one row more
Appended == Len(log') = Len(log) + 1 /\ SubSeq(log', 1, Len(log)) = log

\* the step answers a request to a read endpoint
ReadAnswered == resp' # resp /\ resp'.kind # "none"

\* the row a step added is the row of a POST of a closer: one that was on its
\* way to the store, or the one the scheduled handler awaits in its loop
ClosedBy(row) ==
    \/ \E m \in inflight : m \notin inflight' /\ m.by \in Closers /\ row = Stored(m)
    \/ closer'["handler"].rows = Append(closer["handler"].rows, row)

\* C22: the event log is append-only under every operation: no step changes
\* or removes a row, a step of /analytics/current, /analytics/weekly,
\* /analytics/rush-hours or /api/attendance leaves the log as it is, and a
\* row that is not scanned by the hardware is an OUT written by a closer.
C22_AppendOnly ==
    [][ /\ log' = log \/ Appended
        /\ ReadAnswered => log' = log
        /\ (log' # log /\ scans' = scans) =>
              /\ log'[Len(log')].Check = "OUT"
              /\ ClosedBy(log'[Len(log')]) ]_vars

\* a closer has added its OUT after the scanned rows and a read endpoint has
\* answered since with the whole table
C22_Witness ==
    /\ \E c \in Closers :
          /\ closer[c].rows # <<>>
          /\ \A k \in 1..Len(closer[c].rows) : InLog(closer[c].rows[k])
    /\ Len(log) > scans
    /\ resp.kind = "attendance" /\ resp.status = 200
    /\ Len(resp.body) = Len(log)

----------------------------------------------------------------------------
(* Properties of GET /api/attendance *)

Ranged == resp.kind = "attendance"

BothDates == resp.start_date # Missing /\ resp.end_date # Missing

\* C11: a request to /api/attendance that lacks start_date or lacks end_date
\* is answered 400 and no read was made against the store.
C11_MissingDateRejected ==
    (Ranged /\ ~BothDates) => (resp.status = 400 /\ resp.reads = 0)

\* a request with exactly one of the two dates was answered
C11_Witness ==
    /\ Ranged
    /\ (resp.start_date = Missing) # (resp.end_date = Missing)
    /\ resp.status = 400
    /\ log # <<>>

\* C12: a request to /api/attendance with both dates and start_date later
\* than end_date is answered 400 and no read was made against the store.
C12_InvertedRangeRejected ==
    (Ranged /\ BothDates /\ resp.start_date > resp.end_date)
        => (resp.status = 400 /\ resp.reads = 0)

\* C13: with both dates, a read that returns rows is answered 200 with those
\* rows, a read that succeeds with no row is answered 404 and a read that
\* fails is answered 500; no other answer is given, a failure is never a 404
\* and an empty result never a 500.
C13_ThreeOutcomes ==
    (Ranged /\ BothDates) =>
        /\ resp.reads = 1
        /\ resp.status \in {200, 404, 500}
        /\ resp.status = 200 <=> (resp.read.ok /\ resp.read.data # <<>>)
        /\ resp.status = 200 => resp.body = resp.read.data
        /\ resp.status = 404 <=> (resp.read.ok /\ resp.read.data = <<>>)
        /\ resp.status = 500 <=> ~resp.read.ok

\* a failed read was answered while the table has rows in the range asked for
C13_Witness ==
    /\ Ranged /\ BothDates
    /\ ~resp.read.ok /\ resp.status = 500
    /\ fetchAttendanceByDateRange(resp.start_date, resp.end_date) # {<<>>}

====
